---------------------------- MODULE Spec2Model ----------------------------
(***************************************************************************)
(* Cycle detection of bv-graph-wasm (src/algorithms/cycles.rs):            *)
(*   - tarjan_scc / has_cycles : Tarjan's strongly connected components    *)
(*   - enumerate_cycles / enumerate_cycles_with_info : Johnson's           *)
(*     elementary-cycle enumeration with a cap.                            *)
(* The recursive functions strongconnect and circuit are modelled with an  *)
(* explicit call stack: one frame per active call, holding the node v, the *)
(* cursor i into successors_slice(v) and (for circuit) the local `found`.  *)
(* A caller holds a graph and calls tarjan_scc(graph) (SpecScc),           *)
(* enumerate_cycles_with_info(graph, max_cycles) (SpecEnum, SpecEnumDense) *)
(* or the one after the other on the same graph (Spec).                    *)
(***************************************************************************)
EXTENDS Integers, Sequences, FiniteSets, TLC

\* Bounds of the model: graphs of at most MaxNodes nodes and MaxEdges edges
\* (entries of the successor lists, parallel edges included), caps 0..MaxCap;
\* and the dense graphs of DenseNodes nodes with DenseDegree successors each.
MaxNodes == 3
MaxEdges == 4
MaxCap == 2
DenseNodes == 4
DenseDegree == 2

\* The cap the tests enumerate with when they want every cycle
\* (enumerate_cycles(&graph, 100)).
TestCap == 100

\* usize::MAX, the "not visited" mark of indices/lowlink. The crate targets
\* wasm32; TLC's integers are 32-bit signed, so the largest of them stands
\* for it (it is only compared for equality and passed to min).
USIZE_MAX == 2147483647

VARIABLES
    graph,        \* the DiGraph: graph[v] is successors_slice(v), v in 0..n-1
    pc,           \* where the caller / the running function is
    \* ---- tarjan_scc locals
    index, indices, lowlink, on_stack, scc_stack, components,
    root,         \* loop variable `v` of `for v in 0..n` (line 85)
    scc_frames,   \* active strongconnect calls, innermost last
    scc_result,   \* the SCCResult returned
    \* ---- enumerate_cycles locals
    max_cycles, cycles, blocked, blocked_map, stack,
    start,        \* loop variable of `for start in 0..n` (line 213)
    frames,       \* active circuit calls, innermost last
    result        \* the CycleEnumerationResult returned

scc_vars == <<index, indices, lowlink, on_stack, scc_stack, components,
              root, scc_frames, scc_result>>
enum_vars == <<max_cycles, cycles, blocked, blocked_map, stack, start,
               frames, result>>
vars == <<graph, pc, scc_vars, enum_vars>>

-----------------------------------------------------------------------------
\* The graph read contract (crate::graph::DiGraph, not part of this file).

len(g) == Cardinality(DOMAIN g)

successors_slice(g, v) == g[v]

Nodes == 0 .. (len(graph) - 1)

min(a, b) == IF a <= b THEN a ELSE b

Last(s) == s[Len(s)]

Front(s) == SubSeq(s, 1, Len(s) - 1)

\* The graph whose edges, listed by source node, are src[j] -> dst[j]:
\* successors_slice(v) is the run of dst under the entries of src equal to v.
GraphOf(n, src, dst) ==
    [v \in 0 .. (n - 1) |->
        LET before == Cardinality({ j \in DOMAIN src : src[j] < v })
            here == Cardinality({ j \in DOMAIN src : src[j] = v })
        IN SubSeq(dst, before + 1, before + here)]

Sorted(src) == \A j \in 2 .. Len(src) : src[j - 1] <= src[j]

-----------------------------------------------------------------------------
\* The caller's graph: any graph within the bounds.
InitGraph ==
    /\ \E n \in 0..MaxNodes : \E m \in 0..MaxEdges :
         \E src \in [1..m -> 0 .. (n - 1)] :
            /\ Sorted(src)
            /\ \E dst \in [1..m -> 0 .. (n - 1)] : graph = GraphOf(n, src, dst)

\* A denser caller's graph: DenseNodes nodes, each with DenseDegree distinct
\* successors other than itself, in any order.
InitDenseGraph ==
    graph \in { g \in [0 .. (DenseNodes - 1) ->
                        [1..DenseDegree -> 0 .. (DenseNodes - 1)]] :
                  \A v \in DOMAIN g : \A i, j \in DOMAIN g[v] :
                      g[v][i] # v /\ (g[v][i] = g[v][j] => i = j) }

\* The locals of both functions before any call.
InitLocals ==
    /\ index = 0
    /\ indices = <<>>
    /\ lowlink = <<>>
    /\ on_stack = <<>>
    /\ scc_stack = <<>>
    /\ components = <<>>
    /\ root = 0
    /\ scc_frames = <<>>
    /\ scc_result = [components |-> <<>>, has_cycles |-> FALSE, cycle_count |-> 0]
    /\ max_cycles = 0
    /\ cycles = <<>>
    /\ blocked = <<>>
    /\ blocked_map = <<>>
    /\ stack = <<>>
    /\ start = 0
    /\ frames = <<>>
    /\ result = [cycles |-> <<>>, truncated |-> FALSE, count |-> 0]

\* The caller is about to call tarjan_scc(graph), and enumerates afterwards.
Init == InitGraph /\ pc = "call_scc" /\ InitLocals

\* The caller is about to call enumerate_cycles_with_info(graph, k) alone.
InitEnum == InitGraph /\ pc = "call_enum" /\ InitLocals

\* The same, the dense graphs included.
InitEnumDense == (InitGraph \/ InitDenseGraph) /\ pc = "call_enum" /\ InitLocals

-----------------------------------------------------------------------------
\* tarjan_scc (lines 26-107)

\* lines 100-106: cycle_count and the SCCResult
SCCResultOf(comps) ==
    LET cycle_count == Cardinality({ c \in 1..Len(comps) : Len(comps[c]) > 1 })
    IN [components |-> comps, has_cycles |-> cycle_count > 0,
        cycle_count |-> cycle_count]

\* lines 27-41: the call, its early return on the empty graph, its locals
tarjan_scc ==
    /\ pc = "call_scc"
    /\ IF len(graph) = 0
       THEN /\ scc_result' = [components |-> <<>>, has_cycles |-> FALSE,
                              cycle_count |-> 0]
            /\ pc' = "call_enum"
            /\ UNCHANGED <<index, indices, lowlink, on_stack, scc_stack,
                           components, root, scc_frames>>
       ELSE /\ index' = 0
            /\ indices' = [v \in Nodes |-> USIZE_MAX]
            /\ lowlink' = [v \in Nodes |-> USIZE_MAX]
            /\ on_stack' = [v \in Nodes |-> FALSE]
            /\ scc_stack' = <<>>
            /\ components' = <<>>
            /\ root' = 0
            /\ scc_frames' = <<>>
            /\ pc' = "scc_loop"
            /\ UNCHANGED scc_result
    /\ UNCHANGED <<graph, enum_vars>>

\* lines 53-57: entry of strongconnect(v)
strongconnect_enter(v) ==
    /\ indices' = [indices EXCEPT ![v] = index]
    /\ lowlink' = [lowlink EXCEPT ![v] = index]
    /\ index' = index + 1
    /\ scc_stack' = Append(scc_stack, v)
    /\ on_stack' = [on_stack EXCEPT ![v] = TRUE]
    /\ scc_frames' = Append(scc_frames, [v |-> v, i |-> 1])

\* lines 85-98: one iteration of `for v in 0..n` that calls strongconnect
tarjan_scc_visit ==
    /\ pc = "scc_loop"
    /\ root < len(graph)
    /\ indices[root] = USIZE_MAX
    /\ strongconnect_enter(root)
    /\ pc' = "strongconnect"
    /\ UNCHANGED <<graph, components, root, scc_result, enum_vars>>

\* lines 85-86: an iteration over an already visited node
tarjan_scc_skip ==
    /\ pc = "scc_loop"
    /\ root < len(graph)
    /\ indices[root] # USIZE_MAX
    /\ root' = root + 1
    /\ UNCHANGED <<graph, pc, index, indices, lowlink, on_stack, scc_stack,
                   components, scc_frames, scc_result, enum_vars>>

\* lines 100-106: the loop is over, the result is built
tarjan_scc_return ==
    /\ pc = "scc_loop"
    /\ root = len(graph)
    /\ scc_result' = SCCResultOf(components)
    /\ pc' = "call_enum"
    /\ UNCHANGED <<graph, index, indices, lowlink, on_stack, scc_stack,
                   components, root, scc_frames, enum_vars>>

\* The innermost strongconnect call and the successor its loop is at.
SccTop == Last(scc_frames)

SccAtEdge ==
    /\ pc = "strongconnect"
    /\ SccTop.i <= Len(successors_slice(graph, SccTop.v))

SccW == successors_slice(graph, SccTop.v)[SccTop.i]

SccAdvance(fr) == [fr EXCEPT ![Len(fr)].i = @ + 1]

\* lines 60-62: w not visited, strongconnect(w) is called
strongconnect_recurse ==
    /\ SccAtEdge
    /\ indices[SccW] = USIZE_MAX
    /\ strongconnect_enter(SccW)
    /\ UNCHANGED <<graph, pc, components, root, scc_result, enum_vars>>

\* The on-stack branch without its low-link update.
strongconnect_on_stack_no_lowlink ==
    /\ SccAtEdge
    /\ indices[SccW] # USIZE_MAX
    /\ on_stack[SccW]
    /\ scc_frames' = SccAdvance(scc_frames)
    /\ UNCHANGED <<graph, pc, index, indices, lowlink, on_stack, scc_stack,
                   components, root, scc_result, enum_vars>>

\* lines 64-66: w is on the stack
strongconnect_on_stack ==
    /\ SccAtEdge
    /\ indices[SccW] # USIZE_MAX
    /\ on_stack[SccW]
    /\ lowlink' = [lowlink EXCEPT ![SccTop.v] = min(@, indices[SccW])]
    /\ scc_frames' = SccAdvance(scc_frames)
    /\ UNCHANGED <<graph, pc, index, indices, on_stack, scc_stack, components,
                   root, scc_result, enum_vars>>

\* lines 60-67: w visited and no longer on the stack: neither branch
strongconnect_cross ==
    /\ SccAtEdge
    /\ indices[SccW] # USIZE_MAX
    /\ ~on_stack[SccW]
    /\ scc_frames' = SccAdvance(scc_frames)
    /\ UNCHANGED <<graph, pc, index, indices, lowlink, on_stack, scc_stack,
                   components, root, scc_result, enum_vars>>

\* A pop that stops after the first node instead of at v.
PopComponent_top_only(stk, ons, component, v) ==
    <<Front(stk), [ons EXCEPT ![Last(stk)] = FALSE], <<Last(stk)>> >>

\* lines 72-80: pop the stack down to and including v. The state is
\* <<stack, on_stack, component>>.
RECURSIVE PopComponent(_, _, _, _)
PopComponent(stk, ons, component, v) ==
    LET w == Last(stk)
        stk2 == Front(stk)
        ons2 == [ons EXCEPT ![w] = FALSE]
        comp2 == Append(component, w)
    IN IF w = v THEN <<stk2, ons2, comp2>>
       ELSE PopComponent(stk2, ons2, comp2, v)

\* lines 70-83 and the return to the caller (line 63 or the loop of line 85)
strongconnect_return ==
    /\ pc = "strongconnect"
    /\ SccTop.i > Len(successors_slice(graph, SccTop.v))
    /\ LET v == SccTop.v
           popped == PopComponent(scc_stack, on_stack, <<>>, v)
           callers == Front(scc_frames)
       IN /\ IF lowlink[v] = indices[v]
             THEN /\ scc_stack' = popped[1]
                  /\ on_stack' = popped[2]
                  /\ components' = Append(components, popped[3])
             ELSE UNCHANGED <<scc_stack, on_stack, components>>
          /\ IF callers = <<>>
             THEN /\ scc_frames' = callers
                  /\ root' = root + 1
                  /\ pc' = "scc_loop"
                  /\ UNCHANGED lowlink
             ELSE /\ lowlink' = [lowlink EXCEPT
                                   ![Last(callers).v] = min(@, lowlink[v])]
                  /\ scc_frames' = SccAdvance(callers)
                  /\ UNCHANGED <<root, pc>>
    /\ UNCHANGED <<graph, index, indices, scc_result, enum_vars>>

\* line 110-112
has_cycles == scc_result.has_cycles

-----------------------------------------------------------------------------
\* enumerate_cycles (lines 125-240) and enumerate_cycles_with_info (254-262)

\* lines 256-261: the CycleEnumerationResult built from the returned cycles
enumerate_cycles_with_info(cs, max) ==
    [cycles |-> cs, truncated |-> Len(cs) >= max, count |-> Len(cs)]

\* An unblock that leaves u blocked, and one that unblocks every node.
unblock_none(u, blk, bmap) == { <<blk, bmap>> }

unblock_all(u, blk, bmap) ==
    { <<[v \in DOMAIN blk |-> FALSE], [bmap EXCEPT ![u] = {}]>> }

\* lines 137-145: unblock(u). blocked_map[u] is a HashSet, whose drain order
\* is unspecified: the operator yields the set of all <<blocked, blocked_map>>
\* the call can end with, over every order of the dependents.
RECURSIVE unblock(_, _, _)
RECURSIVE unblock_dependents(_, _, _)
unblock(u, blk, bmap) ==
    unblock_dependents(bmap[u],
                       [blk EXCEPT ![u] = FALSE],
                       [bmap EXCEPT ![u] = {}])

unblock_dependents(dependents, blk, bmap) ==
    IF dependents = {} THEN { <<blk, bmap>> }
    ELSE UNION {
           LET after == IF blk[w] THEN unblock(w, blk, bmap)
                        ELSE { <<blk, bmap>> }
           IN UNION { unblock_dependents(dependents \ {w}, st[1], st[2])
                      : st \in after }
           : w \in dependents }

\* lines 201-205: v becomes a dependent of each successor >= min_node
RECURSIVE insert_dependent(_, _, _, _)
insert_dependent(succs, v, min_node, bmap) ==
    IF succs = <<>> THEN bmap
    ELSE LET w == Head(succs)
         IN insert_dependent(Tail(succs), v, min_node,
                IF w >= min_node
                THEN [bmap EXCEPT ![w] = @ \cup {v}]
                ELSE bmap)

\* A circuit call returns `ret` to `callers` (the frames below it): to line
\* 182-194 of the calling circuit, or to the loop of line 226, which drops it.
circuit_return_to(callers, ret) ==
    IF callers = <<>>
    THEN /\ frames' = <<>>
         /\ start' = start + 1
         /\ pc' = "round"
    ELSE /\ frames' = [callers EXCEPT ![Len(callers)] =
                          [@ EXCEPT !.found = @ \/ ret, !.i = @ + 1]]
         /\ UNCHANGED <<start, pc>>

\* lines 159-165: entry of circuit(v, start, ...), called from `callers`,
\* with `blk` the blocked array at the time of the call
circuit_enter(v, blk, callers) ==
    IF Len(cycles) >= max_cycles
    THEN /\ blocked' = blk
         /\ stack' = stack
         /\ circuit_return_to(callers, FALSE)
    ELSE /\ stack' = Append(stack, v)
         /\ blocked' = [blk EXCEPT ![v] = TRUE]
         /\ frames' = Append(callers, [v |-> v, i |-> 1, found |-> FALSE])
         /\ pc' = "circuit"
         /\ UNCHANGED start

\* The caps a caller passes.
Caps == (0..MaxCap) \cup {TestCap}

\* lines 126-134, and 255-261 when enumerate_cycles returns at once
enumerate_cycles ==
    /\ pc = "call_enum"
    /\ \E k \in Caps :
         /\ max_cycles' = k
         /\ IF len(graph) = 0 \/ k = 0
            THEN /\ result' = enumerate_cycles_with_info(<<>>, k)
                 /\ pc' = "done"
                 /\ UNCHANGED <<cycles, blocked, blocked_map, stack, start,
                                frames>>
            ELSE /\ cycles' = <<>>
                 /\ blocked' = [v \in Nodes |-> FALSE]
                 /\ blocked_map' = [v \in Nodes |-> {}]
                 /\ stack' = <<>>
                 /\ start' = 0
                 /\ frames' = <<>>
                 /\ pc' = "round"
                 /\ UNCHANGED result
    /\ UNCHANGED <<graph, scc_vars>>

\* lines 213-236: one iteration of `for start in 0..n`
enumerate_cycles_round ==
    /\ pc = "round"
    /\ start < len(graph)
    /\ ~(Len(cycles) >= max_cycles)
    /\ blocked_map' = [v \in Nodes |-> {}]
    /\ circuit_enter(start, [v \in Nodes |-> FALSE], <<>>)
    /\ UNCHANGED <<graph, scc_vars, max_cycles, cycles, result>>

\* lines 213-216 and 239, 255-261: the loop ends or breaks, cycles is returned
enumerate_cycles_return ==
    /\ pc = "round"
    /\ (start >= len(graph) \/ Len(cycles) >= max_cycles)
    /\ result' = enumerate_cycles_with_info(cycles, max_cycles)
    /\ pc' = "done"
    /\ UNCHANGED <<graph, scc_vars, max_cycles, cycles, blocked, blocked_map,
                   stack, start, frames>>

\* The innermost circuit call and the successor its loop is at; min_node is
\* start in every call (line 235).
Top == Last(frames)

AtEdge ==
    /\ pc = "circuit"
    /\ Top.i <= Len(successors_slice(graph, Top.v))

W == successors_slice(graph, Top.v)[Top.i]

min_node == start

Advance(fr) == [fr EXCEPT ![Len(fr)].i = @ + 1]

\* The loop without the min_node pruning: a smaller successor is treated as
\* any other successor that is not start.
circuit_skip_no_pruning ==
    /\ AtEdge
    /\ W < min_node
    /\ IF blocked[W]
       THEN /\ frames' = Advance(frames)
            /\ UNCHANGED <<blocked, stack, start, pc>>
       ELSE circuit_enter(W, blocked, frames)
    /\ UNCHANGED <<graph, scc_vars, max_cycles, cycles, blocked_map, result>>

\* lines 169-171: w < min_node
circuit_skip ==
    /\ AtEdge
    /\ W < min_node
    /\ frames' = Advance(frames)
    /\ UNCHANGED <<graph, pc, scc_vars, max_cycles, cycles, blocked,
                   blocked_map, stack, start, result>>

\* A recording that closes the path with start: the stack plus w.
circuit_found_closed ==
    /\ AtEdge
    /\ ~(W < min_node)
    /\ W = start
    /\ cycles' = Append(cycles, Append(stack, W))
    /\ IF Len(cycles') >= max_cycles
       THEN /\ stack' = Front(stack)
            /\ circuit_return_to(Front(frames), TRUE)
       ELSE /\ frames' = [frames EXCEPT ![Len(frames)] =
                             [@ EXCEPT !.found = TRUE, !.i = @ + 1]]
            /\ UNCHANGED <<stack, start, pc>>
    /\ UNCHANGED <<graph, scc_vars, max_cycles, blocked, blocked_map, result>>

\* lines 173-180: w == start, a cycle is recorded
circuit_found ==
    /\ AtEdge
    /\ ~(W < min_node)
    /\ W = start
    /\ cycles' = Append(cycles, stack)
    /\ IF Len(cycles') >= max_cycles
       THEN /\ stack' = Front(stack)
            /\ circuit_return_to(Front(frames), TRUE)
       ELSE /\ frames' = [frames EXCEPT ![Len(frames)] =
                             [@ EXCEPT !.found = TRUE, !.i = @ + 1]]
            /\ UNCHANGED <<stack, start, pc>>
    /\ UNCHANGED <<graph, scc_vars, max_cycles, blocked, blocked_map, result>>

\* lines 181-195: w is not blocked, circuit(w) is called
circuit_recurse ==
    /\ AtEdge
    /\ ~(W < min_node)
    /\ W # start
    /\ ~blocked[W]
    /\ circuit_enter(W, blocked, frames)
    /\ UNCHANGED <<graph, scc_vars, max_cycles, cycles, blocked_map, result>>

\* lines 173-195: w is blocked and is not start: neither branch
circuit_blocked ==
    /\ AtEdge
    /\ ~(W < min_node)
    /\ W # start
    /\ blocked[W]
    /\ frames' = Advance(frames)
    /\ UNCHANGED <<graph, pc, scc_vars, max_cycles, cycles, blocked,
                   blocked_map, stack, start, result>>

\* lines 198-209: the loop is over
circuit_exit ==
    /\ pc = "circuit"
    /\ Top.i > Len(successors_slice(graph, Top.v))
    /\ IF Top.found
       THEN \E st \in unblock(Top.v, blocked, blocked_map) :
               /\ blocked' = st[1]
               /\ blocked_map' = st[2]
       ELSE /\ blocked_map' = insert_dependent(
                   successors_slice(graph, Top.v), Top.v, min_node, blocked_map)
            /\ UNCHANGED blocked
    /\ stack' = Front(stack)
    /\ circuit_return_to(Front(frames), Top.found)
    /\ UNCHANGED <<graph, scc_vars, max_cycles, cycles, result>>

-----------------------------------------------------------------------------
NextScc ==
    \/ tarjan_scc
    \/ tarjan_scc_visit
    \/ tarjan_scc_skip
    \/ tarjan_scc_return
    \/ strongconnect_recurse
    \/ strongconnect_on_stack
    \/ strongconnect_cross
    \/ strongconnect_return

NextEnum ==
    \/ enumerate_cycles
    \/ enumerate_cycles_round
    \/ enumerate_cycles_return
    \/ circuit_skip
    \/ circuit_found
    \/ circuit_recurse
    \/ circuit_blocked
    \/ circuit_exit

Next == NextScc \/ NextEnum

\* tarjan_scc(graph), then enumerate_cycles_with_info(graph, k)
Spec == Init /\ [][Next]_vars

\* tarjan_scc(graph) alone
SpecScc == Init /\ [][NextScc]_vars

\* enumerate_cycles_with_info(graph, k) alone
SpecEnum == InitEnum /\ [][NextEnum]_vars

\* enumerate_cycles_with_info(graph, k) alone, the dense graphs included
SpecEnumDense == InitEnumDense /\ [][NextEnum]_vars

-----------------------------------------------------------------------------
\* Reference notions the claims are stated with (graph theory, not the code).

Edge(u, w) == \E i \in 1..Len(graph[u]) : graph[u][i] = w

RECURSIVE ReachFrom(_)
ReachFrom(S) ==
    LET T == S \cup { w \in Nodes : \E u \in S : Edge(u, w) }
    IN IF T = S THEN S ELSE ReachFrom(T)

\* v is reachable from u by a directed path (of length >= 0)
Reachable(u, v) == v \in ReachFrom({u})

\* some node lies on a directed cycle (a self-loop is one)
HasDirectedCycle ==
    \E v \in Nodes : \E w \in Nodes : Edge(v, w) /\ Reachable(w, v)

NoParallelEdges ==
    \A v \in Nodes : \A i, j \in 1..Len(graph[v]) :
        graph[v][i] = graph[v][j] => i = j

Distinct(s) == \A i, j \in 1..Len(s) : s[i] = s[j] => i = j

\* c is an elementary cycle of the graph, as a path [v0, ..., vk]
IsElementaryCycle(c) ==
    /\ Len(c) >= 1
    /\ \A i \in 1..Len(c) : c[i] \in Nodes
    /\ Distinct(c)
    /\ \A i \in 1..(Len(c) - 1) : Edge(c[i], c[i + 1])
    /\ Edge(c[Len(c)], c[1])

BeginsWithSmallest(c) == \A i \in 1..Len(c) : c[1] <= c[i]

\* The simple paths of the graph that start at their smallest node, grown
\* from the one-node paths P by one edge at a time.
RECURSIVE SimplePaths(_)
SimplePaths(P) ==
    IF P = {} THEN {}
    ELSE P \cup SimplePaths(
            { Append(p, w) : <<p, w>> \in
                { pw \in P \X Nodes :
                    /\ Edge(Last(pw[1]), pw[2])
                    /\ pw[2] > pw[1][1]
                    /\ \A i \in 1..Len(pw[1]) : pw[1][i] # pw[2] } })

\* Every elementary cycle once, written from its smallest node: the simple
\* paths that an edge closes.
ElementaryCycles ==
    { p \in SimplePaths({ <<s>> : s \in Nodes }) : Edge(Last(p), p[1]) }

TotalCycles == Cardinality(ElementaryCycles)

Enumerating == pc \in {"round", "circuit"}

Returned == pc = "done"

EmptyResult == [cycles |-> <<>>, truncated |-> FALSE, count |-> 0]

-----------------------------------------------------------------------------
\* C1: with max_cycles >= 1 the number of recorded cycles never exceeds
\* max_cycles at any point of the search, and the returned list has at most
\* max_cycles entries.
C1_CapNeverExceeded ==
    (max_cycles >= 1 /\ (Enumerating \/ Returned)) =>
        /\ Len(cycles) <= max_cycles
        /\ Len(result.cycles) <= max_cycles

\* C2: on a graph (without parallel edges, so that T is the number of
\* recorded paths an uncapped run yields) with T elementary cycles and a cap
\* 1 <= k < T, enumerate_cycles_with_info returns exactly k cycles,
\* count = k and truncated = true.
C2_CappedReturnsExactlyK ==
    (Returned /\ NoParallelEdges /\ 1 <= max_cycles /\ max_cycles < TotalCycles) =>
        /\ result.count = max_cycles
        /\ Len(result.cycles) = max_cycles
        /\ result.truncated

C4_EmptyNotTruncated ==
    (Returned /\ (max_cycles = 0 \/ len(graph) = 0)) => result = EmptyResult

\* C5: has_cycles is true iff the graph has a directed cycle (self-loops
\* included), i.e. iff enumerate_cycles with a cap >= 1 returns a non-empty
\* list.
C5_HasCyclesIffCycleExists ==
    Returned =>
        /\ has_cycles <=> HasDirectedCycle
        /\ max_cycles >= 1 => (has_cycles <=> result.cycles # <<>>)

\* C6: the components returned by tarjan_scc partition 0..n-1: every node is
\* in exactly one component, once; no component is empty; no other index
\* appears; a node without edges is a singleton component.
C6_ComponentsPartitionNodes ==
    pc = "call_enum" =>
        LET comps == scc_result.components
            Places(v) == { <<c, j>> \in (1..Len(comps)) \X (1..len(graph)) :
                              j <= Len(comps[c]) /\ comps[c][j] = v }
            Isolated(v) == /\ graph[v] = <<>>
                           /\ \A u \in Nodes : ~Edge(u, v)
        IN /\ \A v \in Nodes : Cardinality(Places(v)) = 1
           /\ \A c \in 1..Len(comps) :
                 /\ comps[c] # <<>>
                 /\ \A j \in 1..Len(comps[c]) : comps[c][j] \in Nodes
           /\ \A v \in Nodes :
                 Isolated(v) => \E c \in 1..Len(comps) : comps[c] = <<v>>

C6_Witness ==
    /\ pc = "call_enum"
    /\ len(graph) = 3
    /\ Len(scc_result.components) = 2
    /\ \E c \in 1..2 : Len(scc_result.components[c]) = 2
    /\ \E v \in Nodes : graph[v] = <<>> /\ \A u \in Nodes : ~Edge(u, v)

\* C7: tarjan_scc puts u and v in the same component iff each is reachable
\* from the other: every popped segment is one maximal strongly connected
\* component.
C7_ComponentsAreMutualReachability ==
    pc = "call_enum" =>
        LET comps == scc_result.components
            Members(c) == { comps[c][j] : j \in 1..Len(comps[c]) }
            Same(u, v) == \E c \in 1..Len(comps) :
                             u \in Members(c) /\ v \in Members(c)
            reach == [u \in Nodes |-> ReachFrom({u})]
        IN \A u, v \in Nodes :
              Same(u, v) <=> (v \in reach[u] /\ u \in reach[v])

\* a 2-node component next to a completed component it has a cross edge to
C7_Witness ==
    /\ pc = "call_enum"
    /\ len(graph) = 3
    /\ Len(scc_result.components) = 2
    /\ Len(scc_result.components[1]) = 1
    /\ Len(scc_result.components[2]) = 2
    /\ \E u \in Nodes : Edge(u, scc_result.components[1][1])
                        /\ u # scc_result.components[1][1]

\* C8: every recorded cycle is an elementary cycle of the graph: non-empty,
\* no node twice, an edge from each node to the next and from the last to
\* the first; at every point of the search and in the result, for every cap.
C8_RecordedCyclesAreElementary ==
    /\ Enumerating => \A i \in 1..Len(cycles) : IsElementaryCycle(cycles[i])
    /\ Returned =>
          \A i \in 1..Len(result.cycles) : IsElementaryCycle(result.cycles[i])

\* a cycle recorded after the cap was reached, in the result
C8_Witness ==
    /\ Returned
    /\ max_cycles >= 1
    /\ Len(result.cycles) > max_cycles
    /\ Len(result.cycles[Len(result.cycles)]) >= 2

\* C9: each recorded cycle begins with its smallest node, the list is
\* ordered by non-decreasing first node, and during the round of start the
\* path holds only nodes >= start and every recorded cycle begins with a
\* node <= start.
C9_CyclesStartAtSmallestInOrder ==
    (Enumerating \/ Returned) =>
        /\ \A i \in 1..Len(cycles) : BeginsWithSmallest(cycles[i])
        /\ \A i, j \in 1..Len(cycles) : i < j => cycles[i][1] <= cycles[j][1]
        /\ \A i \in 1..Len(stack) : stack[i] >= start
        /\ Enumerating => \A i \in 1..Len(cycles) : cycles[i][1] <= start
        /\ Returned => result.cycles = cycles

\* cycles of two rounds, the later one found past an edge to a smaller node
C9_Witness ==
    /\ Returned
    /\ Len(result.cycles) = 2
    /\ result.cycles[1][1] = 0
    /\ result.cycles[2][1] = 1
    /\ Len(result.cycles[2]) = 2
    /\ \E v \in Nodes : v > 1 /\ Edge(v, 0)

\* C10: within a round every node on the path stack is blocked, the stack
\* holds distinct nodes (those of the active circuit calls) with start at the
\* bottom, so unblock never unblocks a node still on the stack; the stack is
\* empty when a round begins and when enumerate_cycles returns.
C10_StackBlockedAndBalanced ==
    /\ pc = "circuit" =>
          /\ stack # <<>>
          /\ stack[1] = start
          /\ Distinct(stack)
          /\ Len(stack) = Len(frames)
          /\ \A i \in 1..Len(stack) : stack[i] = frames[i].v /\ blocked[stack[i]]
    /\ pc = "round" => stack = <<>>
    /\ Returned => stack = <<>>

\* a stale entry: blocked_map[u] still names w, which was unblocked since,
\* entered again and is now on the path stack, after a first cycle
C10_Witness ==
    /\ pc = "circuit"
    /\ cycles # <<>>
    /\ \E u \in Nodes : \E w \in blocked_map[u] :
          \E i \in 1..Len(stack) : stack[i] = w

=============================================================================
